---- MODULE Spec2Model ----
(***************************************************************************)
(* Model of telegram_bot.py: the per-user session dictionary               *)
(* (context.user_data), the conversation state of the ConversationHandler, *)
(* the messages of the chat, the record store (MongoDB collection) and the *)
(* handlers start, validate_key, cancel, logout_command, button_handler    *)
(* (get_images, refresh_images, end_session) with clear_previous_images.   *)
(*                                                                         *)
(* Handlers run one at a time (Application.builder().build() keeps the     *)
(* default of sequential update processing).  A handler that awaits the    *)
(* transport several times is a sequence of steps (pc); the record store   *)
(* and the calendar day belong to the environment, so every find_one and   *)
(* every reading of the date may return any value, also between two steps  *)
(* of one handler.  Every transport call and content fetch may fail;       *)
(* a failure outside a try block ends the handler at that point.           *)
(* help_command and query.answer() touch neither the session nor a message *)
(* that is referred to again, and are left out.                            *)
(***************************************************************************)
EXTENDS Integers, Sequences, FiniteSets, TLC

\* ---------------------------------------------------------------- bounds
MaxMsgs == 4    \* sending handlers start only while the chat is shorter
MaxLen == 3     \* longest image_links list given to the resolver on its own
MaxChatMsgs == 2  \* as MaxMsgs, when the user is in two chats

\* ------------------------------------------------------------- constants
WAITING_FOR_KEY == 0
END == -1       \* ConversationHandler.END

Keys == {"K1", "K2"}          \* texts a user can type as activation key
StoreKeys == {"K1"}           \* access_key values the store may hold
NoKey == "absent"             \* 'activation_key' not in user_data
Dates == {1, 2}               \* calendar days (strftime('%Y-%m-%d') values)
Chats == {"A", "B"}           \* chat ids (query.message.chat_id)

\* An image entry: a str (bare URL) or a dict with 'url' and maybe 'date'.
Str(u) == [kind |-> "str", url |-> u, has_date |-> FALSE, date |-> 0]
Dict(u, d) == [kind |-> "dict", url |-> u, has_date |-> TRUE, date |-> d]
DictNoDate(u) == [kind |-> "dict", url |-> u, has_date |-> FALSE, date |-> 0]

\* image_links lists the record store may hold for a key
LinkLists(k) ==
  { <<>>,
    <<Dict("b", 1)>>,
    <<Str("a"), Dict("b", 1)>>,
    <<Dict("b", 1), Str("a")>> }

\* find_one result: a document, or None
None == [exists |-> FALSE, access_key |-> NoKey, image_links |-> <<>>]
Doc(k, l) == [exists |-> TRUE, access_key |-> k, image_links |-> l]
DocsOf(k) == {None} \cup {Doc(k, l) : l \in LinkLists(k)}

\* what the user types: the key with or without surrounding blanks
RawInputs == [blanks : BOOLEAN, body : Keys]
strip(raw) == raw.body

\* kinds of bot messages in the chat; the menus carry inline buttons
Buttons(kind) ==
  CASE kind = "menu2" -> {"get_images", "refresh_images"}
    [] kind = "menu1" -> {"refresh_images"}
    [] kind = "menu3" -> {"get_images", "refresh_images", "logout"}
    [] OTHER -> {}

VARIABLES
  chats,       \* the chats in which the user talks to the bot
  user_data,   \* context.user_data: one dictionary per user, whatever the chat
  conv,        \* ConversationHandler state per chat: END or WAITING_FOR_KEY
  msgs,        \* per chat: message id -> kind ("deleted" once deleted), of
               \* the bot messages a handler can refer to again: those sent
               \* with buttons and the photo/error messages of a batch
  pc,          \* position of the running handler, "idle" between updates
  h,           \* the running handler's locals
  dels,        \* history: ids whose delete_message was attempted, this handler
  sent,        \* history: ids of photo/error messages sent, this handler
  lookups,     \* history: find_one results, this handler
  calls,       \* history: transport calls attempted, this handler
  outcome,     \* history: how the last handler ended
  pre,         \* history: user_data and session state when the handler began
  validated,   \* history: the chat validate_key validated the session in,
               \* "none" before that and once user_data is cleared
  after_logout,\* history: the handler that returned last was a logout
  batch,       \* history: ids sent by the last pass that reached line 223
  lost,        \* history: ids sent by passes that ended before line 223
  rIn, rToday, rOut, rDone   \* the resolver run on its own

vars == <<chats, user_data, conv, msgs, pc, h, dels, sent, lookups, calls,
          outcome, pre, validated, after_logout, batch, lost,
          rIn, rToday, rOut, rDone>>
resVars == <<rIn, rToday, rOut, rDone>>

\* context.user_data of a fresh user / after user_data.clear()
EmptyUserData ==
  [activation_key |-> NoKey, user_data |-> None,
   has_ids |-> FALSE, image_message_ids |-> <<>>]

h0 ==
  [name |-> "none", chat_id |-> "none", qmsg |-> 0, user_doc |-> None,
   today_images |-> <<>>,
   i |-> 0, new_message_ids |-> <<>>, results |-> <<>>, di |-> 0,
   ret |-> "none", changed |-> FALSE,
   started |-> FALSE]

\* the spec's session state, read off the code's state, as seen from chat c
SessionState(c) ==
  IF conv[c] = WAITING_FOR_KEY THEN "AwaitingKey"
  ELSE IF validated # "none" THEN "Authenticated" ELSE "Unauthenticated"

\* collection.find_one({"access_key": k}): the store is owned by others, so
\* each lookup may find any document with that key, or none
find_one(k) == IF k \in StoreKeys THEN DocsOf(k) ELSE {None}

RECURSIVE today_images_any_date(_, _)
today_images_any_date(image_links, day) ==
  IF image_links = <<>> THEN <<>>
  ELSE LET img == Head(image_links)
           rest == today_images_any_date(Tail(image_links), day)
       IN IF img.kind = "dict" /\ img.has_date
          THEN <<img.url>> \o rest
          ELSE IF img.kind = "str" THEN <<img.url>> \o rest
          ELSE rest

\* lines 175-181: the filter loop of get_images
RECURSIVE today_images(_, _)
today_images(image_links, day) ==
  IF image_links = <<>> THEN <<>>
  ELSE LET img == Head(image_links)
           rest == today_images(Tail(image_links), day)
       IN IF img.kind = "dict" /\ img.has_date /\ img.date = day
          THEN <<img.url>> \o rest
          ELSE IF img.kind = "str" THEN <<img.url>> \o rest
          ELSE rest

nothing_to_send_no_links_only(image_links, todays) == image_links = <<>>

\* lines 162 and 183: the two early returns of get_images
nothing_to_send(image_links, todays) ==
  image_links = <<>> \/ todays = <<>>

images_changed_inverted(old_images, new_images) ==
  Len(new_images) # Len(old_images) \/ new_images = old_images

images_changed_by_length(old_images, new_images) ==
  Len(new_images) # Len(old_images)

\* line 269: the comparison of refresh_images
images_changed(old_images, new_images) ==
  Len(new_images) # Len(old_images) \/ new_images # old_images

stored_ids_with_status(new_message_ids, status_id) ==
  Append(new_message_ids, status_id)

\* line 223: what get_images stores for the next cleanup
stored_ids(new_message_ids, status_id) == new_message_ids

\* updates that may send tracked messages are taken while the chats are short
CanStart ==
  Len(msgs["A"]) + Len(msgs["B"])
    < (IF chats = {"A"} THEN MaxMsgs ELSE MaxChatMsgs)

\* a handler begins in chat c: the history of the update starts
Begin(c) ==
  /\ dels' = <<>>
  /\ sent' = <<>>
  /\ pre' = [ud |-> user_data, state |-> SessionState(c),
             validated |-> validated]

NoPre == [ud |-> EmptyUserData, state |-> "Unauthenticated",
          validated |-> "none"]

Construction ==
  /\ user_data = EmptyUserData
  /\ conv = [c \in Chats |-> END]
  /\ msgs = [c \in Chats |-> <<>>]
  /\ pc = "idle"
  /\ h = h0
  /\ dels = <<>> /\ sent = <<>> /\ lookups = <<>> /\ calls = 0
  /\ outcome = "none"
  /\ pre = NoPre
  /\ validated = "none"
  /\ after_logout = FALSE
  /\ batch = [chat |-> "none", ids |-> <<>>]
  /\ lost = {}

Init ==
  /\ chats = {"A"}
  /\ Construction
  /\ rIn = <<>> /\ rToday = 1 /\ rOut = <<>> /\ rDone = TRUE

sessVars == <<user_data, validated>>
histVars == <<after_logout, batch, lost>>

fixed == <<chats, rIn, rToday, rOut, rDone>>

\* ------------------------------------------------------- lines 54-61
start(c) ==
  /\ pc = "idle" /\ conv[c] = END
  /\ Begin(c)
  /\ lookups' = <<>>
  /\ calls' = 1
  /\ h' = [h0 EXCEPT !.name = "start", !.chat_id = c]
  /\ \E ok \in BOOLEAN :
       IF ok
       THEN /\ msgs' = msgs   \* the prompt: a plain reply
            /\ conv' = [conv EXCEPT ![c] = WAITING_FOR_KEY]
            /\ outcome' = "Prompt"
       ELSE /\ UNCHANGED <<msgs, conv>>
            /\ outcome' = "Aborted"
  /\ pc' = "done"
  /\ UNCHANGED sessVars /\ UNCHANGED histVars /\ UNCHANGED fixed

\* ------------------------------------------------------- lines 63-98
validate_key(c) ==
  /\ pc = "idle" /\ conv[c] = WAITING_FOR_KEY /\ CanStart
  /\ Begin(c)
  /\ calls' = 1
  /\ h' = [h0 EXCEPT !.name = "validate_key", !.chat_id = c]
  /\ \E raw \in RawInputs : \E user_doc \in find_one(strip(raw)) :
     \E ok \in BOOLEAN :
       LET activation_key == strip(raw)
       IN /\ lookups' = <<user_doc>>
          /\ IF user_doc.exists
             THEN /\ user_data' = [activation_key |-> activation_key,
                                   user_data |-> user_doc,
                                   has_ids |-> TRUE,
                                   image_message_ids |-> <<>>]
                  /\ validated' = c
                  /\ IF ok
                     THEN /\ msgs' = [msgs EXCEPT ![c] = Append(@, "menu2")]
                          /\ conv' = [conv EXCEPT ![c] = END]
                          /\ outcome' = "Welcome"
                     ELSE /\ UNCHANGED <<msgs, conv>>
                          /\ outcome' = "Aborted"
             ELSE /\ user_data' = [user_data EXCEPT
                                     !.activation_key = activation_key]
                  /\ UNCHANGED <<validated, conv>>
                  /\ IF ok
                     THEN msgs' = msgs /\ outcome' = "RetryPrompt"
                     ELSE msgs' = msgs /\ outcome' = "Aborted"
  /\ pc' = "done"
  /\ UNCHANGED histVars /\ UNCHANGED fixed

\* ------------------------------------------------------- lines 313-318
cancel(c) ==
  /\ pc = "idle" /\ conv[c] = WAITING_FOR_KEY
  /\ Begin(c)
  /\ lookups' = <<>>
  /\ calls' = 1
  /\ h' = [h0 EXCEPT !.name = "cancel", !.chat_id = c]
  /\ \E ok \in BOOLEAN :
       IF ok
       THEN /\ msgs' = msgs
            /\ conv' = [conv EXCEPT ![c] = END]
            /\ outcome' = "Cancelled"
       ELSE /\ UNCHANGED <<msgs, conv>>
            /\ outcome' = "Aborted"
  /\ pc' = "done"
  /\ UNCHANGED sessVars /\ UNCHANGED histVars /\ UNCHANGED fixed

\* context.bot.delete_message(chat_id, message_id): the chat after the call
delete_message(chat_id, message_id, ok) ==
  IF ok /\ message_id \in DOMAIN msgs[chat_id]
        /\ msgs[chat_id][message_id] # "deleted"
  THEN [msgs EXCEPT ![chat_id][message_id] = "deleted"]
  ELSE msgs

Deleted(chat_id, message_id) ==
  message_id \in DOMAIN msgs[chat_id] /\ msgs[chat_id][message_id] = "deleted"

clear_previous_images_keep_on_failure ==
  /\ pc = "clear"
  /\ IF ~(user_data.has_ids /\ user_data.image_message_ids # <<>>)
     THEN /\ pc' = h.ret
          /\ UNCHANGED <<user_data, msgs, h, dels, calls>>
     ELSE IF h.di <= Len(user_data.image_message_ids)
     THEN LET msg_id == user_data.image_message_ids[h.di] IN
          /\ \E ok \in BOOLEAN : msgs' = delete_message(h.chat_id, msg_id, ok)
          /\ dels' = Append(dels, msg_id)
          /\ calls' = calls + 1
          /\ h' = [h EXCEPT !.di = h.di + 1]
          /\ UNCHANGED <<user_data, pc>>
     ELSE /\ user_data' =
               IF \A k \in 1..Len(user_data.image_message_ids) :
                     Deleted(h.chat_id, user_data.image_message_ids[k])
               THEN [user_data EXCEPT !.image_message_ids = <<>>]
               ELSE user_data
          /\ pc' = h.ret
          /\ UNCHANGED <<msgs, h, dels, calls>>
  /\ UNCHANGED <<conv, sent, lookups, outcome, pre, validated>>
  /\ UNCHANGED histVars /\ UNCHANGED fixed

\* ------------------------------------------------------- lines 127-137
\* clear_previous_images, one delete_message per step.  The caller has set
\* h.di = 1 and h.ret to the place it continues at.
clear_previous_images ==
  /\ pc = "clear"
  /\ IF ~(user_data.has_ids /\ user_data.image_message_ids # <<>>)
     THEN \* line 129 is false: nothing to do
          /\ pc' = h.ret
          /\ UNCHANGED <<user_data, msgs, h, dels, calls>>
     ELSE IF h.di <= Len(user_data.image_message_ids)
     THEN \* lines 130-134: one iteration, the exception is swallowed
          LET msg_id == user_data.image_message_ids[h.di] IN
          /\ \E ok \in BOOLEAN : msgs' = delete_message(h.chat_id, msg_id, ok)
          /\ dels' = Append(dels, msg_id)
          /\ calls' = calls + 1
          /\ h' = [h EXCEPT !.di = h.di + 1]
          /\ UNCHANGED <<user_data, pc>>
     ELSE \* line 137
          /\ user_data' = [user_data EXCEPT !.image_message_ids = <<>>]
          /\ pc' = h.ret
          /\ UNCHANGED <<msgs, h, dels, calls>>
  /\ UNCHANGED <<conv, sent, lookups, outcome, pre, validated>>
  /\ UNCHANGED histVars /\ UNCHANGED fixed

logout_command_without_clear(c) ==
  /\ pc = "idle"
  /\ Begin(c)
  /\ lookups' = <<>>
  /\ calls' = 0
  /\ UNCHANGED <<user_data, validated>>
  /\ h' = [h0 EXCEPT !.name = "logout_command", !.chat_id = c,
                     !.di = 1, !.ret = "reply"]
  /\ pc' = "clear"
  /\ outcome' = "running"
  /\ UNCHANGED <<conv, msgs>>
  /\ UNCHANGED histVars /\ UNCHANGED fixed

\* ------------------------------------------------------- lines 301-311
\* /logout: user_data.clear(), then the call of clear_previous_images
logout_command(c) ==
  /\ pc = "idle"
  /\ Begin(c)
  /\ lookups' = <<>>
  /\ calls' = 0
  /\ user_data' = EmptyUserData
  /\ validated' = "none"
  /\ h' = [h0 EXCEPT !.name = "logout_command", !.chat_id = c,
                     !.di = 1, !.ret = "reply"]
  /\ pc' = "clear"
  /\ outcome' = "running"
  /\ UNCHANGED <<conv, msgs>>
  /\ UNCHANGED histVars /\ UNCHANGED fixed

\* lines 309-311: the confirmation of /logout
logout_reply ==
  /\ pc = "reply"
  /\ calls' = calls + 1
  /\ \E ok \in BOOLEAN :
       IF ok THEN msgs' = msgs /\ outcome' = "LoggedOut"
       ELSE msgs' = msgs /\ outcome' = "Aborted"
  /\ pc' = "done"
  /\ UNCHANGED <<user_data, conv, h, dels, sent, lookups, pre, validated>>
  /\ UNCHANGED histVars /\ UNCHANGED fixed

\* ------------------------------------------------------- lines 112-125
\* button 'logout': user_data.clear(), then the call of clear_previous_images
end_session(c) ==
  /\ pc = "idle"
  /\ \E q \in DOMAIN msgs[c] :
       /\ "logout" \in Buttons(msgs[c][q])
       /\ h' = [h0 EXCEPT !.name = "end_session", !.chat_id = c, !.qmsg = q,
                          !.di = 1, !.ret = "edit"]
  /\ Begin(c)
  /\ lookups' = <<>>
  /\ calls' = 0
  /\ user_data' = EmptyUserData
  /\ validated' = "none"
  /\ pc' = "clear"
  /\ outcome' = "running"
  /\ UNCHANGED <<conv, msgs>>
  /\ UNCHANGED histVars /\ UNCHANGED fixed

\* lines 122-125: the clicked message becomes the logout confirmation
end_session_edit ==
  /\ pc = "edit"
  /\ calls' = calls + 1
  /\ \E ok \in BOOLEAN :
       IF ok THEN msgs' = [msgs EXCEPT ![h.chat_id][h.qmsg] = "text"]
                  /\ outcome' = "LoggedOut"
       ELSE msgs' = msgs /\ outcome' = "Aborted"
  /\ pc' = "done"
  /\ UNCHANGED <<user_data, conv, h, dels, sent, lookups, pre, validated>>
  /\ UNCHANGED histVars /\ UNCHANGED fixed

\* ------------------------------------------------------- lines 139-196
\* get_images up to the call of clear_previous_images, for the locals hb,
\* with lk the lookups and cb the transport calls made so far by this handler.
get_images_entry(hb, lk, cb) ==
  /\ calls' = cb + 1
  /\ IF user_data.activation_key = NoKey
     THEN \* lines 144-148
          /\ lookups' = lk
          /\ h' = hb
          /\ pc' = "done"
          /\ \E ok \in BOOLEAN :
               IF ok THEN msgs' = [msgs EXCEPT ![hb.chat_id][hb.qmsg] = "text"]
                          /\ outcome' = "SessionExpired"
               ELSE msgs' = msgs /\ outcome' = "Aborted"
     ELSE \E user_doc \in find_one(user_data.activation_key) :
          \E today \in Dates :
          LET image_links == user_doc.image_links
              todays == today_images(image_links, today)
          IN /\ lookups' = Append(lk, user_doc)
             /\ IF ~user_doc.exists
                THEN \* lines 153-157
                     /\ h' = hb
                     /\ pc' = "done"
                     /\ \E ok \in BOOLEAN :
                          IF ok THEN msgs' = [msgs EXCEPT
                                                ![hb.chat_id][hb.qmsg] = "text"]
                                     /\ outcome' = "KeyRevoked"
                          ELSE msgs' = msgs /\ outcome' = "Aborted"
                ELSE IF nothing_to_send(image_links, todays)
                THEN \* lines 162-169 and 183-190
                     /\ h' = [hb EXCEPT !.user_doc = user_doc]
                     /\ pc' = "done"
                     /\ \E ok \in BOOLEAN :
                          IF ok THEN msgs' = [msgs EXCEPT
                                                ![hb.chat_id][hb.qmsg] = "menu1"]
                                     /\ outcome' = "Nothing"
                          ELSE msgs' = msgs /\ outcome' = "Aborted"
                ELSE \* lines 193-196
                     \E ok \in BOOLEAN :
                       IF ok
                       THEN /\ msgs' = [msgs EXCEPT
                                          ![hb.chat_id][hb.qmsg] = "text"]
                            /\ h' = [hb EXCEPT !.user_doc = user_doc,
                                               !.today_images = todays,
                                               !.i = 1,
                                               !.new_message_ids = <<>>,
                                               !.results = <<>>,
                                               !.di = 1, !.ret = "send",
                                               !.started = TRUE]
                            /\ pc' = "clear"
                            /\ outcome' = "running"
                       ELSE /\ msgs' = msgs
                            /\ h' = [hb EXCEPT !.user_doc = user_doc,
                                               !.today_images = todays]
                            /\ pc' = "done"
                            /\ outcome' = "Aborted"

\* button 'get_images' (lines 105-106)
get_images(c) ==
  /\ pc = "idle" /\ CanStart
  /\ Begin(c)
  /\ \E q \in DOMAIN msgs[c] :
       /\ "get_images" \in Buttons(msgs[c][q])
       /\ get_images_entry([h0 EXCEPT !.name = "get_images", !.chat_id = c,
                                      !.qmsg = q], <<>>, 0)
  /\ UNCHANGED <<user_data, conv, validated>>
  /\ UNCHANGED histVars /\ UNCHANGED fixed

\* line 275: get_images called by refresh_images
refresh_get_images ==
  /\ pc = "get"
  /\ get_images_entry(h, lookups, calls)
  /\ UNCHANGED <<user_data, conv, dels, sent, pre, validated>>
  /\ UNCHANGED histVars /\ UNCHANGED fixed

\* line 220: the id of the substitute error message is tracked too
append_error_id_dropped(new_message_ids, message_id) == new_message_ids

append_error_id(new_message_ids, message_id) ==
  Append(new_message_ids, message_id)

\* ------------------------------------------------------- lines 200-220
\* one iteration of the send loop
send_image ==
  /\ pc = "send"
  /\ h.i <= Len(h.today_images)
  /\ \E fetched \in BOOLEAN : \E photo_ok \in BOOLEAN : \E text_ok \in BOOLEAN :
       LET id == Len(msgs[h.chat_id]) + 1
           tried == IF fetched /\ ~photo_ok THEN 2 ELSE 1
       IN
       /\ calls' = calls + tried
       /\ IF fetched /\ photo_ok
          THEN \* lines 203-213
               /\ msgs' = [msgs EXCEPT ![h.chat_id] = Append(@, "photo")]
               /\ sent' = Append(sent, id)
               /\ h' = [h EXCEPT !.new_message_ids = Append(@, id),
                                 !.results = Append(@, "photo"),
                                 !.i = @ + 1]
               /\ UNCHANGED <<pc, outcome, lost>>
          ELSE IF text_ok
          THEN \* lines 214-220
               /\ msgs' = [msgs EXCEPT ![h.chat_id] = Append(@, "error")]
               /\ sent' = Append(sent, id)
               /\ h' = [h EXCEPT !.new_message_ids = append_error_id(@, id),
                                 !.results = Append(@, "error"),
                                 !.i = @ + 1]
               /\ UNCHANGED <<pc, outcome, lost>>
          ELSE \* send_message of line 216 raises inside the except block
               /\ pc' = "done"
               /\ outcome' = "Aborted"
               /\ lost' = lost \cup {<<h.chat_id, sent[k]>> : k \in 1..Len(sent)}
               /\ UNCHANGED <<msgs, sent, h>>
  /\ UNCHANGED <<user_data, conv, dels, lookups, pre, validated>>
  /\ UNCHANGED <<after_logout, batch>> /\ UNCHANGED fixed

\* ------------------------------------------------------- lines 222-238
get_images_finish ==
  /\ pc = "send"
  /\ h.i > Len(h.today_images)
  /\ user_data' = [user_data EXCEPT
                     !.has_ids = TRUE,
                     !.image_message_ids = stored_ids(h.new_message_ids, h.qmsg)]
  /\ batch' = [chat |-> h.chat_id, ids |-> sent]
  /\ calls' = calls + 2
  /\ \E del_ok \in BOOLEAN : \E send_ok \in BOOLEAN :
       IF del_ok /\ send_ok
       THEN /\ msgs' = [delete_message(h.chat_id, h.qmsg, TRUE)
                          EXCEPT ![h.chat_id] = Append(@, "menu3")]
            /\ outcome' = "Delivered"
       ELSE IF del_ok
       THEN /\ msgs' = delete_message(h.chat_id, h.qmsg, TRUE)
            /\ outcome' = "Aborted"
       ELSE /\ msgs' = msgs
            /\ outcome' = "Aborted"
  /\ pc' = "done"
  /\ UNCHANGED <<conv, h, dels, sent, lookups, pre, validated>>
  /\ UNCHANGED <<after_logout, lost>> /\ UNCHANGED fixed

\* ------------------------------------------------------- lines 240-288
refresh_images(c) ==
  /\ pc = "idle" /\ CanStart
  /\ Begin(c)
  /\ calls' = 1
  /\ UNCHANGED <<conv, validated>>
  /\ UNCHANGED histVars /\ UNCHANGED fixed
  /\ \E q \in DOMAIN msgs[c] : \E ok \in BOOLEAN :
       LET hb == [h0 EXCEPT !.name = "refresh_images", !.chat_id = c,
                            !.qmsg = q] IN
       /\ "refresh_images" \in Buttons(msgs[c][q])
       /\ IF user_data.activation_key = NoKey
          THEN \* lines 245-249
               /\ lookups' = <<>>
               /\ h' = hb
               /\ pc' = "done"
               /\ user_data' = user_data
               /\ IF ok THEN msgs' = [msgs EXCEPT ![c][q] = "text"]
                             /\ outcome' = "SessionExpired"
                  ELSE msgs' = msgs /\ outcome' = "Aborted"
          ELSE \E user_doc \in find_one(user_data.activation_key) :
               LET old_user_data == user_data.user_data
                   old_images == old_user_data.image_links
                   new_images == user_doc.image_links
               IN /\ lookups' = <<user_doc>>
                  /\ IF ~user_doc.exists
                     THEN \* lines 254-258
                          /\ h' = hb
                          /\ pc' = "done"
                          /\ user_data' = user_data
                          /\ IF ok THEN msgs' = [msgs EXCEPT ![c][q] = "text"]
                                        /\ outcome' = "KeyRevoked"
                             ELSE msgs' = msgs /\ outcome' = "Aborted"
                     ELSE \* lines 260-266
                          /\ user_data' = [user_data EXCEPT !.user_data = user_doc]
                          /\ IF images_changed(old_images, new_images)
                             THEN \* lines 270-274
                                  IF ok
                                  THEN /\ msgs' = [msgs EXCEPT ![c][q] = "text"]
                                       /\ h' = [hb EXCEPT !.user_doc = user_doc,
                                                          !.changed = TRUE,
                                                          !.di = 1, !.ret = "get"]
                                       /\ pc' = "clear"
                                       /\ outcome' = "running"
                                  ELSE /\ msgs' = msgs
                                       /\ h' = [hb EXCEPT !.user_doc = user_doc,
                                                          !.changed = TRUE]
                                       /\ pc' = "done"
                                       /\ outcome' = "Aborted"
                             ELSE \* lines 277-288
                                  /\ h' = [hb EXCEPT !.user_doc = user_doc]
                                  /\ pc' = "done"
                                  /\ IF ok THEN msgs' = [msgs EXCEPT ![c][q] = "menu3"]
                                                /\ outcome' = "Unchanged"
                                     ELSE msgs' = msgs /\ outcome' = "Aborted"

\* The handler has returned to the dispatcher: its locals are gone, and the
\* history of the update is closed.
handler_return ==
  /\ pc = "done"
  /\ pc' = "idle"
  /\ h' = h0
  /\ dels' = <<>> /\ sent' = <<>> /\ lookups' = <<>> /\ calls' = 0
  /\ outcome' = "none"
  /\ pre' = NoPre
  /\ after_logout' = (h.name \in {"end_session", "logout_command"})
  /\ UNCHANGED <<user_data, conv, msgs, validated, batch, lost>>
  /\ UNCHANGED fixed

Next ==
  \/ handler_return
  \/ \E c \in chats : start(c)
  \/ \E c \in chats : validate_key(c)
  \/ \E c \in chats : cancel(c)
  \/ \E c \in chats : logout_command(c)
  \/ logout_reply
  \/ \E c \in chats : end_session(c)
  \/ end_session_edit
  \/ \E c \in chats : get_images(c)
  \/ refresh_get_images
  \/ \E c \in chats : refresh_images(c)
  \/ clear_previous_images \/ send_image \/ get_images_finish

Spec == Init /\ [][Next]_vars

\* the same user in two chats
InitChats ==
  /\ chats = Chats
  /\ Construction
  /\ rIn = <<>> /\ rToday = 1 /\ rOut = <<>> /\ rDone = TRUE

SpecChats == InitChats /\ [][Next]_vars

\* ------------------------------------------- the resolver run on its own
ResolverEntries ==
  {Str("a"), Str("b"), Dict("a", 1), Dict("b", 2), DictNoDate("b")}

SeqsUpTo(S, n) == UNION {[1..m -> S] : m \in 0..n}

InitResolve ==
  /\ chats = {"A"}
  /\ Construction
  /\ rIn \in SeqsUpTo(ResolverEntries, MaxLen)
  /\ rToday \in Dates
  /\ rOut = <<>>
  /\ rDone = FALSE

\* lines 171-181 applied to rIn on the day rToday
resolve ==
  /\ ~rDone
  /\ rOut' = today_images(rIn, rToday)
  /\ rDone' = TRUE
  /\ UNCHANGED <<rIn, rToday, chats>>
  /\ UNCHANGED <<user_data, conv, msgs, pc, h, dels, sent, lookups, calls,
                 outcome, pre, validated, after_logout, batch, lost>>

NextResolve == resolve

SpecResolve == InitResolve /\ [][NextResolve]_vars

\* ================================================================ claims
IsLogout == h.name \in {"end_session", "logout_command"}
Ids(ud) == IF ud.has_ids THEN ud.image_message_ids ELSE <<>>
Range(s) == {s[k] : k \in 1..Len(s)}

\* C1: a logout on a session with tracked ids has attempted a delete of
\* every id tracked when it began, by the time it ends.
C1_LogoutDeletesTracked ==
  (pc = "done" /\ IsLogout) => Range(Ids(pre.ud)) \subseteq Range(dels)

\* C2: after a deliver that resolved N images and ran to completion,
\* image_message_ids holds N ids, the k-th being the photo or the substitute
\* error message produced for the k-th image, in send order.
C2_OneIdPerImage ==
  (pc = "done" /\ outcome = "Delivered") =>
     /\ user_data.has_ids
     /\ Len(user_data.image_message_ids) = Len(h.today_images)
     /\ user_data.image_message_ids = sent
     /\ Len(h.results) = Len(h.today_images)
     /\ \A k \in 1..Len(h.today_images) :
          /\ msgs[h.chat_id][user_data.image_message_ids[k]] = h.results[k]
          /\ \A j \in 1..(k - 1) :
               user_data.image_message_ids[j] < user_data.image_message_ids[k]

C2_Witness ==
  /\ pc = "done" /\ outcome = "Delivered"
  /\ h.results = <<"photo", "error">>
  /\ Len(user_data.image_message_ids) = 2

\* the refresh in progress fetched an image list equal to the cached one
RefreshSameLinks ==
  /\ h.name = "refresh_images"
  /\ lookups # <<>>
  /\ lookups[1].exists
  /\ lookups[1].image_links = pre.ud.user_data.image_links

\* C3: a refresh whose fetched image_links equal the cached ones deletes and
\* sends nothing and leaves image_message_ids as it was.
C3_UnchangedNoEffects ==
  RefreshSameLinks =>
     /\ pc = "done"
     /\ dels = <<>> /\ sent = <<>>
     /\ user_data.has_ids = pre.ud.has_ids
     /\ user_data.image_message_ids = pre.ud.image_message_ids

C3_Witness ==
  /\ RefreshSameLinks /\ pc = "done" /\ outcome = "Unchanged"
  /\ user_data.image_message_ids # <<>>
  /\ lookups[1].image_links # <<>>

\* C4: a deliver or refresh that finds the key gone ends with the session
\* cleared.
C4_RevokedClearsSession ==
  (pc = "done" /\ outcome = "KeyRevoked") =>
     user_data = EmptyUserData /\ SessionState(h.chat_id) = "Unauthenticated"

\* the resolver as the spec states it: keep bare URLs and the entries dated
\* today, in the order of the record
Deliverable(e, day) ==
  e.kind = "str" \/ (e.kind = "dict" /\ e.has_date /\ e.date = day)

\* C5: the resolved set is the subsequence of image_links made of the bare
\* URLs and the urls of the entries dated today, in original order.
C5_ResolveIsFilter ==
  rDone =>
    LET keep(e) == Deliverable(e, rToday)
        kept == SelectSeq(rIn, keep)
    IN /\ Len(rOut) = Len(kept)
       /\ \A k \in 1..Len(kept) : rOut[k] = kept[k].url

C5_Witness ==
  /\ rDone
  /\ rIn = <<Dict("b", 2), Str("a"), Dict("a", 1)>>
  /\ rToday = 2
  /\ rOut = <<"b", "a">>

\* C6: a validation of an input the store does not resolve leaves the
\* session in AwaitingKey and otherwise as it was.
C6_RejectedKeyNotStored ==
  (pc = "done" /\ h.name = "validate_key" /\ ~lookups[1].exists) =>
     conv[h.chat_id] = WAITING_FOR_KEY /\ user_data = pre.ud

\* C7: a deliver on a session that was not validated since it was last
\* cleared looks nothing up, deletes nothing and sends nothing.
C7_DeliverNeedsValidation ==
  (h.name = "get_images" /\ validated = "none") =>
     /\ lookups = <<>> /\ dels = <<>> /\ sent = <<>>
     /\ pc = "done"
     /\ outcome \in {"SessionExpired", "Aborted"}

\* C8: a delivery pass that began has attempted every resolved image and
\* stored the pending list by the time the handler ends.
C8_BatchNeverAborts ==
  (pc = "done" /\ h.started) =>
     /\ h.i > Len(h.today_images)
     /\ user_data.image_message_ids = h.new_message_ids

\* C9: a refresh performs one record store lookup, also when it delivers.
C9_RefreshSingleLookup ==
  h.name = "refresh_images" => Len(lookups) <= 1

\* C10: after a deliver that sent a batch, the cached record is the record
\* that deliver fetched.
C10_DeliverCachesRecord ==
  (pc = "done" /\ h.name = "get_images" /\ outcome = "Delivered") =>
     user_data.user_data = h.user_doc

C12_LogoutLeavesUnauthenticated ==
  (pc = "done" /\ IsLogout) =>
     /\ user_data = EmptyUserData
     /\ conv[h.chat_id] = END
     /\ SessionState(h.chat_id) = "Unauthenticated"

\* C13: while the session stays validated, its activation key keeps its
\* value.
C13_KeyImmutable ==
  [][(validated # "none" /\ validated' # "none") =>
       user_data'.activation_key = user_data.activation_key]_vars

\* C14: after a deliver ran to completion with its deletions successful, no
\* message of an interrupted pass is left visible and untracked.
C14_RedoReconstructs ==
  (/\ pc = "done" /\ outcome = "Delivered"
   /\ \A k \in 1..Len(dels) : Deleted(h.chat_id, dels[k])) =>
     \A m \in lost :
        m[1] = h.chat_id =>
          \/ Deleted(m[1], m[2])
          \/ m[2] \in Range(Ids(user_data))

\* C16: a handler driven from one chat leaves alone a session that was
\* validated in another chat.
C16_OtherChatSessionUntouched ==
  (pc = "done" /\ pre.validated \notin {"none", h.chat_id}) =>
     user_data = pre.ud

C18_EmptyDeliverTouchesNothing ==
  (/\ pc = "done" /\ h.name = "get_images"
   /\ lookups # <<>> /\ lookups[1].exists
   /\ h.today_images = <<>>) =>
     /\ dels = <<>> /\ sent = <<>>
     /\ user_data = pre.ud
     /\ outcome \in {"Nothing", "Aborted"}
     /\ outcome = "Nothing" => msgs[h.chat_id][h.qmsg] = "menu1"

C18_Witness ==
  /\ pc = "done" /\ h.name = "get_images" /\ outcome = "Nothing"
  /\ lookups[1].image_links # <<>>
  /\ Ids(user_data) # <<>>
  /\ msgs[h.chat_id][Ids(user_data)[1]] \in {"photo", "error"}

SeqDiffers(a, b) ==
  Len(a) # Len(b) \/ \E k \in 1..Len(a) : a[k] # b[k]

\* C19: refresh takes the changed branch exactly when the fetched
\* image_links differ from the cached ones as ordered sequences.
C19_ChangedIffDiffers ==
  (h.name = "refresh_images" /\ lookups # <<>> /\ lookups[1].exists) =>
     /\ h.changed <=>
          SeqDiffers(pre.ud.user_data.image_links, lookups[1].image_links)
     /\ outcome = "Unchanged" => ~h.changed
     /\ pc # "done" => h.changed

C19_Witness ==
  /\ h.name = "refresh_images" /\ pc = "clear" /\ h.changed
  /\ Len(lookups[1].image_links) = 2
  /\ Range(lookups[1].image_links) = Range(pre.ud.user_data.image_links)
  /\ Len(pre.ud.user_data.image_links) = 2

\* C20: between updates the tracked list is empty or holds, in send order,
\* the ids of the photo and error messages of the last pass that stored its
\* list.
C20_TrackedIsLastBatch ==
  pc = "idle" =>
    \/ Ids(user_data) = <<>>
    \/ /\ Ids(user_data) = batch.ids
       /\ \A k \in 1..Len(batch.ids) :
            /\ batch.ids[k] \in DOMAIN msgs[batch.chat]
            /\ msgs[batch.chat][batch.ids[k]] \in {"photo", "error"}

C20_Witness ==
  /\ pc = "idle"
  /\ Len(Ids(user_data)) = 2
  /\ msgs["A"][Ids(user_data)[1]] = "error"
  /\ \E q \in DOMAIN msgs["A"] : msgs["A"][q] = "menu3"
====
